---- MODULE Spec2Model ----
(***************************************************************************)
(* Node lifecycle model of dlrover/python/common/node.py.                  *)
(*                                                                         *)
(* Python objects live in two heaps: `nodes` (Node objects) and            *)
(* `resources` (NodeResource objects).  A Node holds references into the   *)
(* resource heap for config_resource and used_resource, so aliasing of a   *)
(* NodeResource between a NodeGroupResource and its nodes, or between a     *)
(* node and a copy of it, is visible in the model.                         *)
(***************************************************************************)
EXTENDS Integers, Sequences, FiniteSets, TLC

VARIABLES
    nodes,      \* heap of Node objects: reference -> record of fields
    resources,  \* heap of NodeResource objects: reference -> record of fields
    group,      \* the NodeGroupResource object of the role
    call,       \* the last call made on the API: name, receiver, arguments, result
    ops,        \* number of API calls made so far
    roster,     \* reconciliation loop: (role, taskIndex) -> reference of the active Node
    queue,      \* reconciliation loop: the serialized event queue
    signals,    \* reconciliation loop: records emitted to the job-state collaborator
    requests,   \* reconciliation loop: create requests sent to the cluster-watch collaborator
    exited      \* cluster-watch collaborator: node ids whose process has exited

vars == <<nodes, resources, group, call, ops, roster, queue, signals, requests, exited>>

nodeVars == <<nodes, resources, group, call, ops>>

loopVars == <<roster, queue, signals, requests, exited>>

\* ---------------------------------------------------------------- bounds

\* API calls made in one behaviour of Spec
MaxOps == 2

\* Node objects in the heap
MaxNodes == 2

\* largest max_relaunch_count a node is constructed with
MaxRelaunch == 2

\* events waiting in the reconciliation queue
MaxQueue == 1

\* ------------------------------------------------------------- constants

None == "None"

\* dlrover.python.common.constants.NodeStatus
NodeStatus == {"INITIAL", "PENDING", "RUNNING", "SUCCEEDED", "FAILED", "DELETED"}

\* dlrover.python.common.constants.NodeExitReason
FATAL_ERROR == "fatal_error"

NodeExitReason == {"killed", FATAL_ERROR}

\* dlrover.python.common.constants.NodeResourceLimit.MAX_MEMORY (MB)
MAX_MEMORY == 65536

\* values a caller passes for memory (MB): just below and at the ceiling
MemValues == {MAX_MEMORY - 1, MAX_MEMORY}

CpuValues == {1, 4}

\* the roles of the job: node type, whether its nodes are critical
Roles == {[type |-> "worker", critical |-> FALSE], [type |-> "ps", critical |-> TRUE]}

\* ------------------------------------------------------------------ heap

\* the next free reference of a heap
NewRef(heap) == Cardinality(DOMAIN heap) + 1

\* heap with object `obj` stored at reference `ref`
Store(heap, ref, obj) == [r \in DOMAIN heap \cup {ref} |-> IF r = ref THEN obj ELSE heap[r]]

\* ---------------------------------------------------------- NodeResource

\* NodeResource.__init__(cpu, memory, gpu_type=None, gpu_num=0)
NodeResource(cpu, memory, gpu_type, gpu_num) ==
    [cpu |-> cpu, memory |-> memory, gpu_type |-> gpu_type, gpu_num |-> gpu_num,
     image |-> "", priority |-> ""]

\* ----------------------------------------------------- NodeGroupResource

\* NodeGroupResource.__init__: node_resource is kept by reference
NodeGroupResource(count, node_resource, priority) ==
    [count |-> count, node_resource |-> node_resource, priority |-> priority]

\* NodeGroupResource.update mutates the referenced NodeResource in place;
\* the result is the group and the resource heap after the call
NodeGroupResource_update(g, res, count, cpu, memory) ==
    [group |-> [g EXCEPT !.count = count],
     resources |-> [res EXCEPT ![g.node_resource].cpu = cpu,
                               ![g.node_resource].memory = memory]]

\* ------------------------------------------------------------------ Node

\* Node.__init__: config_resource is kept by reference, used_resource is a
\* fresh NodeResource(0.0, 0.0); `a` holds the arguments.  The result is the
\* new Node and the resource heap after the allocation.
Node_init(res, a) ==
    LET used == NewRef(res)
    IN  [node |->
            [type |-> a.node_type,
             id |-> a.node_id,
             name |-> a.name,
             status |-> a.status,
             start_time |-> a.start_time,
             task_index |-> IF a.task_index # None THEN a.task_index ELSE a.node_id,
             relaunch_count |-> a.relaunch_count,
             critical |-> a.critical,
             max_relaunch_count |-> a.max_relaunch_count,
             relaunchable |-> a.relaunchable,
             service_addr |-> a.service_addr,
             create_time |-> "now",
             finish_time |-> "now",
             is_recovered_oom |-> FALSE,
             is_released |-> FALSE,
             exit_reason |-> None,
             config_resource |-> a.config_resource,
             used_resource |-> used],
         resources |-> Store(res, used, NodeResource(0, 0, None, 0))]

\* the defaults of Node.__init__'s keyword arguments
NodeDefaults ==
    [name |-> None, status |-> "INITIAL", start_time |-> None, task_index |-> None,
     relaunch_count |-> 0, critical |-> FALSE, max_relaunch_count |-> 0,
     relaunchable |-> TRUE, service_addr |-> None]

\* inc_relaunch_count with the increment lost
inc_relaunch_count_lost(n) == [n EXCEPT !.relaunch_count = @]

\* Node.inc_relaunch_count
inc_relaunch_count(n) == [n EXCEPT !.relaunch_count = @ + 1]

\* Node.update_info
update_info(n, name, start_time, create_time) ==
    [n EXCEPT !.name = IF name # None THEN name ELSE @,
              !.start_time = IF start_time # None THEN start_time ELSE @,
              !.create_time = IF create_time # None THEN create_time ELSE @]

\* update_status taking an absent status for RUNNING
update_status_default(n, status) ==
    [n EXCEPT !.status = IF status # None THEN status ELSE "RUNNING"]

\* update_status with its test inverted (is None for is not None)
update_status_inverted(n, status) ==
    IF status = None THEN [n EXCEPT !.status = status] ELSE n

\* Node.update_status
update_status(n, status) ==
    IF status # None THEN [n EXCEPT !.status = status] ELSE n

\* update_resource_usage writing through the config_resource reference
update_resource_usage_config(n, res, cpu, memory) ==
    [res EXCEPT ![n.config_resource].cpu = cpu,
                ![n.config_resource].memory = memory]

\* Node.update_resource_usage writes through the used_resource reference;
\* the result is the resource heap after the call
update_resource_usage(n, res, cpu, memory) ==
    [res EXCEPT ![n.used_resource].cpu = cpu,
                ![n.used_resource].memory = memory]

\* Node.set_exit_reason
set_exit_reason(n, reason) == [n EXCEPT !.exit_reason = reason]

\* copy.copy(node) in place of copy.deepcopy(node): the copy holds the same
\* NodeResource references
ShallowCopy(n, res) == [node |-> n, resources |-> res]

\* copy.deepcopy(node): every NodeResource the node references is copied to
\* a fresh reference, one copy per distinct object (deepcopy's memo)
DeepCopy(n, res) ==
    LET c == NewRef(res)
        res1 == Store(res, c, res[n.config_resource])
        u == IF n.used_resource = n.config_resource THEN c ELSE NewRef(res1)
        res2 == Store(res1, u, res[n.used_resource])
    IN  [node |-> [n EXCEPT !.config_resource = c, !.used_resource = u],
         resources |-> res2]

\* the resets, with the relaunch count raised as well
RelaunchResetInc(c, new_id) ==
    [c EXCEPT !.id = new_id, !.name = None, !.status = "INITIAL",
              !.start_time = None, !.is_released = FALSE, !.relaunchable = TRUE,
              !.relaunch_count = @ + 1]

\* the resets, with the relaunch count started over
RelaunchResetCount(c, new_id) ==
    [c EXCEPT !.id = new_id, !.name = None, !.status = "INITIAL",
              !.start_time = None, !.is_released = FALSE, !.relaunchable = TRUE,
              !.relaunch_count = 0]

\* the resets, with the exit reason cleared as well
RelaunchResetExit(c, new_id) ==
    [c EXCEPT !.id = new_id, !.name = None, !.status = "INITIAL",
              !.start_time = None, !.is_released = FALSE, !.relaunchable = TRUE,
              !.exit_reason = None]

\* the resets get_relaunch_node_info applies to the copy
RelaunchReset(c, new_id) ==
    [c EXCEPT !.id = new_id, !.name = None, !.status = "INITIAL",
              !.start_time = None, !.is_released = FALSE, !.relaunchable = TRUE]

\* Node.get_relaunch_node_info: the result is the new Node and the resource
\* heap after the copy
get_relaunch_node_info(n, res, new_id) ==
    LET c == DeepCopy(n, res)
    IN  [node |-> RelaunchReset(c.node, new_id), resources |-> c.resources]

\* the verdict with the budget test off by one (> for >=)
is_unrecoverable_failure_gt(n, res) ==
    IF \/ n.relaunch_count > n.max_relaunch_count
       \/ n.exit_reason = FATAL_ERROR
       \/ res[n.used_resource].memory >= MAX_MEMORY
    THEN TRUE
    ELSE FALSE

\* Node.is_unrecoverable_failure
is_unrecoverable_failure(n, res) ==
    IF \/ n.relaunch_count >= n.max_relaunch_count
       \/ n.exit_reason = FATAL_ERROR
       \/ res[n.used_resource].memory >= MAX_MEMORY
    THEN TRUE
    ELSE FALSE

\* ------------------------------------------------- the API and its callers

\* (name, start_time, create_time) arguments of update_info
UpdateInfoArgs ==
    {<<None, None, None>>, <<"pod-a", None, None>>, <<None, "t1", None>>,
     <<None, None, "t2">>}

\* ids a caller hands to Node(...) and to get_relaunch_node_info
NodeIds == 0 .. MaxNodes - 1

Call(op, self, args, ret) == [op |-> op, self |-> self, args |-> args, ret |-> ret]

\* Node(role.type, id, config_resource, critical=role.critical,
\* max_relaunch_count=max, relaunchable=rl) stored at the next free reference
Construct(heapN, res, role, id, config_resource, max, rl) ==
    LET a == [NodeDefaults EXCEPT !.critical = role.critical,
                                  !.max_relaunch_count = max,
                                  !.relaunchable = rl]
             @@ [node_type |-> role.type, node_id |-> id,
                 config_resource |-> config_resource]
        made == Node_init(res, a)
    IN  [nodes |-> Store(heapN, NewRef(heapN), made.node), resources |-> made.resources]

\* the job starts with the role's NodeGroupResource built over its template
\* NodeResource (reference 1) and the role's first Node, built with the
\* group's node_resource as its config_resource
Init ==
    /\ group = NodeGroupResource(1, 1, None)
    /\ \E role \in Roles, max \in 0 .. MaxRelaunch, rl \in BOOLEAN :
          LET made == Construct(<<>>, <<NodeResource(1, 100, None, 0)>>, role, 0, 1, max, rl)
          IN  /\ nodes = made.nodes
              /\ resources = made.resources
    /\ call = Call("init", None, <<>>, None)
    /\ ops = 0
    /\ roster = <<>>
    /\ queue = <<>>
    /\ signals = <<>>
    /\ requests = <<>>
    /\ exited = {}

\* a sibling: another Node built with the group's node_resource
NewNode ==
    /\ ops < MaxOps
    /\ Cardinality(DOMAIN nodes) < MaxNodes
    /\ \E role \in Roles, max \in 0 .. MaxRelaunch, rl \in BOOLEAN :
          LET id == Cardinality(DOMAIN nodes)
              made == Construct(nodes, resources, role, id, group.node_resource, max, rl)
          IN  /\ nodes' = made.nodes
              /\ resources' = made.resources
              /\ call' = Call("Node", None, <<role.type, id>>, NewRef(nodes))
    /\ ops' = ops + 1
    /\ UNCHANGED <<group, loopVars>>

IncRelaunchCount ==
    /\ ops < MaxOps
    /\ \E r \in DOMAIN nodes :
          /\ nodes[r].relaunch_count <= MaxRelaunch
          /\ nodes' = [nodes EXCEPT ![r] = inc_relaunch_count(@)]
          /\ call' = Call("inc_relaunch_count", r, <<>>, None)
    /\ ops' = ops + 1
    /\ UNCHANGED <<resources, group, loopVars>>

UpdateInfo ==
    /\ ops < MaxOps
    /\ \E r \in DOMAIN nodes, a \in UpdateInfoArgs :
          /\ nodes' = [nodes EXCEPT ![r] = update_info(@, a[1], a[2], a[3])]
          /\ call' = Call("update_info", r, a, None)
    /\ ops' = ops + 1
    /\ UNCHANGED <<resources, group, loopVars>>

UpdateStatus ==
    /\ ops < MaxOps
    /\ \E r \in DOMAIN nodes, s \in NodeStatus \cup {None} :
          /\ nodes' = [nodes EXCEPT ![r] = update_status(@, s)]
          /\ call' = Call("update_status", r, <<s>>, None)
    /\ ops' = ops + 1
    /\ UNCHANGED <<resources, group, loopVars>>

UpdateResourceUsage ==
    /\ ops < MaxOps
    /\ \E r \in DOMAIN nodes, cpu \in CpuValues, mem \in MemValues :
          /\ resources' = update_resource_usage(nodes[r], resources, cpu, mem)
          /\ call' = Call("update_resource_usage", r, <<cpu, mem>>, None)
    /\ ops' = ops + 1
    /\ UNCHANGED <<nodes, group, loopVars>>

SetExitReason ==
    /\ ops < MaxOps
    /\ \E r \in DOMAIN nodes, reason \in NodeExitReason :
          /\ nodes' = [nodes EXCEPT ![r] = set_exit_reason(@, reason)]
          /\ call' = Call("set_exit_reason", r, <<reason>>, None)
    /\ ops' = ops + 1
    /\ UNCHANGED <<resources, group, loopVars>>

GetRelaunchNodeInfo ==
    /\ ops < MaxOps
    /\ Cardinality(DOMAIN nodes) < MaxNodes
    /\ \E r \in DOMAIN nodes, new_id \in NodeIds :
          LET got == get_relaunch_node_info(nodes[r], resources, new_id)
              ref == NewRef(nodes)
          IN  /\ nodes' = Store(nodes, ref, got.node)
              /\ resources' = got.resources
              /\ call' = Call("get_relaunch_node_info", r, <<new_id>>, ref)
    /\ ops' = ops + 1
    /\ UNCHANGED <<group, loopVars>>

IsUnrecoverableFailure ==
    /\ ops < MaxOps
    /\ \E r \in DOMAIN nodes :
          call' = Call("is_unrecoverable_failure", r, <<>>,
                       is_unrecoverable_failure(nodes[r], resources))
    /\ ops' = ops + 1
    /\ UNCHANGED <<nodes, resources, group, loopVars>>

\* the owner of a node releases it: node.is_released = True
Release ==
    /\ ops < MaxOps
    /\ \E r \in DOMAIN nodes :
          /\ nodes' = [nodes EXCEPT ![r].is_released = TRUE]
          /\ call' = Call("release", r, <<>>, None)
    /\ ops' = ops + 1
    /\ UNCHANGED <<resources, group, loopVars>>

GroupUpdate ==
    /\ ops < MaxOps
    /\ \E count \in {2}, cpu \in CpuValues, mem \in MemValues :
          LET got == NodeGroupResource_update(group, resources, count, cpu, mem)
          IN  /\ group' = got.group
              /\ resources' = got.resources
              /\ call' = Call("NodeGroupResource.update", None, <<count, cpu, mem>>, None)
    /\ ops' = ops + 1
    /\ UNCHANGED <<nodes, loopVars>>

Next ==
    \/ NewNode
    \/ IncRelaunchCount
    \/ UpdateInfo
    \/ UpdateStatus
    \/ UpdateResourceUsage
    \/ SetExitReason
    \/ GetRelaunchNodeInfo
    \/ IsUnrecoverableFailure
    \/ Release
    \/ GroupUpdate

Spec == Init /\ [][Next]_vars

\* ------------------------------------------------ lifecycle policy engine

\* the three actions of the policy for a node that has failed
AppliesRelaunch(n, res) == n.relaunchable /\ ~is_unrecoverable_failure(n, res)

AppliesTerminal(n, res) == is_unrecoverable_failure(n, res) /\ ~n.critical

AppliesFatal(n, res) == is_unrecoverable_failure(n, res) /\ n.critical

\* the actions that apply to a failed node
Applicable(n, res) ==
    {a \in {"relaunch", "node-terminal", "job-fatal"} :
        \/ a = "relaunch" /\ AppliesRelaunch(n, res)
        \/ a = "node-terminal" /\ AppliesTerminal(n, res)
        \/ a = "job-fatal" /\ AppliesFatal(n, res)}

\* the decision: the action that applies, or no-op when none does
Decide(n, res) ==
    IF AppliesRelaunch(n, res) THEN "relaunch"
    ELSE IF AppliesTerminal(n, res) THEN "node-terminal"
    ELSE IF AppliesFatal(n, res) THEN "job-fatal"
    ELSE "no-op"

\* --------------------------------------------------- reconciliation loop

Slot(n) == <<n.type, n.task_index>>

\* memory samples (MB) the cluster reports: below and at the ceiling
SampleValues == {100, MAX_MEMORY}

\* status changes the cluster reports for a node that has not exited
StatusValues == {"PENDING", "RUNNING", "SUCCEEDED"}

Event(kind, node, status, exit_reason, cpu, memory) ==
    [kind |-> kind, node |-> node, status |-> status, exit_reason |-> exit_reason,
     cpu |-> cpu, memory |-> memory]

\* the record handed to the job-state collaborator
Signal(event, n) ==
    [event |-> event, role |-> n.type, taskIndex |-> n.task_index,
     relaunchCount |-> n.relaunch_count, exitReason |-> n.exit_reason]

\* the createNode request handed to the cluster-watch collaborator
CreateRequest(n, ref) == [role |-> n.type, taskIndex |-> n.task_index, node |-> ref]

\* roster without the entry of `slot`
RemoveSlot(ro, slot) == [x \in DOMAIN ro \ {slot} |-> ro[x]]

\* the next id of a role: ids are unique within the role
NextId(heapN, type) == Cardinality({r \in DOMAIN heapN : heapN[r].type = type})

\* the job starts with one node per role at task index 0, each stamped with its
\* own copy of the role's template NodeResource: one role's node is built with
\* max_relaunch_count and relaunchable given, the other with the defaults of
\* Node.__init__
InitLoop ==
    /\ group = NodeGroupResource(1, 1, None)
    /\ \E role \in Roles, max \in 0 .. MaxRelaunch, rl \in BOOLEAN :
          LET template == NodeResource(1, 100, None, 0)
              other == CHOOSE x \in Roles : x # role
              first == Construct(<<>>, <<template, template>>, role, 0, 2, max, rl)
              both == Construct(first.nodes, Store(first.resources, 4, template),
                                other, 0, 4, NodeDefaults.max_relaunch_count,
                                NodeDefaults.relaunchable)
          IN  /\ nodes = both.nodes
              /\ resources = both.resources
              /\ roster = [slot \in {<<x.type, 0>> : x \in Roles} |->
                              IF slot[1] = role.type THEN 1 ELSE 2]
    /\ call = Call("init", None, <<>>, None)
    /\ ops = 0
    /\ queue = <<>>
    /\ signals = <<>>
    /\ requests = <<>>
    /\ exited = {}

\* the nodes the cluster is running: in the roster, process not exited
Alive == {roster[slot] : slot \in DOMAIN roster} \ exited

\* cluster-watch collaborator: a status change of a running node
EmitStatus ==
    /\ Len(queue) < MaxQueue
    /\ \E r \in Alive, st \in StatusValues :
          /\ queue' = Append(queue, Event("status", r, st, None, None, None))
          /\ exited' = IF st = "SUCCEEDED" THEN exited \cup {r} ELSE exited
    /\ UNCHANGED <<nodeVars, roster, signals, requests>>

\* cluster-watch collaborator: a resource sample of a running node
EmitSample ==
    /\ Len(queue) < MaxQueue
    /\ \E r \in Alive, mem \in SampleValues :
          queue' = Append(queue, Event("sample", r, None, None, 1, mem))
    /\ UNCHANGED <<nodeVars, roster, signals, requests, exited>>

\* cluster-watch collaborator: the exit notification of a failed node
EmitExit ==
    /\ Len(queue) < MaxQueue
    /\ \E r \in Alive, reason \in NodeExitReason :
          /\ queue' = Append(queue, Event("exit", r, "FAILED", reason, None, None))
          /\ exited' = exited \cup {r}
    /\ UNCHANGED <<nodeVars, roster, signals, requests>>

\* the loop takes a status change: node.update_status(status)
HandleStatus ==
    /\ queue # <<>>
    /\ Head(queue).kind = "status"
    /\ LET e == Head(queue)
       IN  nodes' = [nodes EXCEPT ![e.node] = update_status(@, e.status)]
    /\ queue' = Tail(queue)
    /\ UNCHANGED <<resources, group, call, ops, roster, signals, requests, exited>>

\* the loop takes a resource sample: node.update_resource_usage(cpu, memory)
HandleSample ==
    /\ queue # <<>>
    /\ Head(queue).kind = "sample"
    /\ LET e == Head(queue)
       IN  resources' = update_resource_usage(nodes[e.node], resources, e.cpu, e.memory)
    /\ queue' = Tail(queue)
    /\ UNCHANGED <<nodes, group, call, ops, roster, signals, requests, exited>>

\* the failed node of an exit notification, after update_status(FAILED) and
\* set_exit_reason(reason)
Failed(e) == set_exit_reason(update_status(nodes[e.node], e.status), e.exit_reason)

\* the loop takes an exit notification and the policy says relaunch: the
\* successor is derived, its relaunch count incremented once, and it replaces
\* the failed node in the roster
HandleExitRelaunch ==
    /\ queue # <<>>
    /\ Head(queue).kind = "exit"
    /\ LET e == Head(queue)
           n == Failed(e)
       IN  /\ Decide(n, resources) = "relaunch"
           /\ LET got == get_relaunch_node_info(n, resources, NextId(nodes, n.type))
                  s == inc_relaunch_count(got.node)
                  ref == NewRef(nodes)
              IN  /\ nodes' = Store([nodes EXCEPT ![e.node] = n], ref, s)
                  /\ resources' = got.resources
                  /\ roster' = [roster EXCEPT ![Slot(n)] = ref]
                  /\ requests' = Append(requests, CreateRequest(s, ref))
                  /\ signals' = Append(signals, Signal("relaunch", s))
    /\ queue' = Tail(queue)
    /\ UNCHANGED <<group, call, ops, exited>>

\* the policy says unrecoverable, non-critical: the node is marked DELETED and
\* released, and its roster entry is removed
HandleExitTerminal ==
    /\ queue # <<>>
    /\ Head(queue).kind = "exit"
    /\ LET e == Head(queue)
           n == Failed(e)
       IN  /\ Decide(n, resources) = "node-terminal"
           /\ nodes' = [nodes EXCEPT ![e.node] =
                           [update_status(n, "DELETED") EXCEPT !.is_released = TRUE]]
           /\ roster' = RemoveSlot(roster, Slot(n))
           /\ signals' = Append(signals, Signal("node-terminal", n))
    /\ queue' = Tail(queue)
    /\ UNCHANGED <<resources, group, call, ops, requests, exited>>

\* the policy says unrecoverable, critical: the job-fatal signal is raised
HandleExitFatal ==
    /\ queue # <<>>
    /\ Head(queue).kind = "exit"
    /\ LET e == Head(queue)
           n == Failed(e)
       IN  /\ Decide(n, resources) = "job-fatal"
           /\ nodes' = [nodes EXCEPT ![e.node] = n]
           /\ signals' = Append(signals, Signal("job-fatal", n))
    /\ queue' = Tail(queue)
    /\ UNCHANGED <<resources, group, call, ops, roster, requests, exited>>

\* none of the three actions applies: the node stays failed in the roster
HandleExitNoOp ==
    /\ queue # <<>>
    /\ Head(queue).kind = "exit"
    /\ LET e == Head(queue)
           n == Failed(e)
       IN  /\ Decide(n, resources) = "no-op"
           /\ nodes' = [nodes EXCEPT ![e.node] = n]
    /\ queue' = Tail(queue)
    /\ UNCHANGED <<resources, group, call, ops, roster, signals, requests, exited>>

NextLoop ==
    \/ EmitStatus
    \/ EmitSample
    \/ EmitExit
    \/ HandleStatus
    \/ HandleSample
    \/ HandleExitRelaunch
    \/ HandleExitTerminal
    \/ HandleExitFatal
    \/ HandleExitNoOp

SpecLoop == InitLoop /\ [][NextLoop]_vars

\* ------------------------------------------------------ claims: Node API

\* what a holder of node reference r can observe: its fields and the two
\* NodeResource objects it references
View(r) ==
    [node |-> nodes[r],
     config |-> resources[nodes[r].config_resource],
     used |-> resources[nodes[r].used_resource]]

\* the Node methods that write a field
NodeMutators ==
    {"update_status", "update_info", "update_resource_usage", "inc_relaunch_count",
     "set_exit_reason"}

\* C1: is_unrecoverable_failure() is true exactly when relaunch_count >=
\* max_relaunch_count, or exit_reason == FATAL_ERROR, or used_resource.memory >=
\* MAX_MEMORY; so it is true for every node with relaunch_count ==
\* max_relaunch_count whatever its other fields, and false when none of the
\* three holds.  The verdict a caller gets is that of the receiver.
C1_UnrecoverableExactly ==
    /\ \A r \in DOMAIN nodes :
          LET n == nodes[r]
              budget == n.relaunch_count >= n.max_relaunch_count
              fatal == n.exit_reason = FATAL_ERROR
              memory == resources[n.used_resource].memory >= MAX_MEMORY
              verdict == is_unrecoverable_failure(n, resources)
          IN  /\ verdict \in BOOLEAN
              /\ verdict <=> (budget \/ fatal \/ memory)
              /\ n.relaunch_count = n.max_relaunch_count => verdict
              /\ (~budget /\ ~fatal /\ ~memory) => ~verdict
    /\ call.op = "is_unrecoverable_failure" =>
          LET n == nodes[call.self]
          IN  call.ret <=> \/ n.relaunch_count >= n.max_relaunch_count
                           \/ n.exit_reason = FATAL_ERROR
                           \/ resources[n.used_resource].memory >= MAX_MEMORY

\* a node whose budget is exactly used up, with a retriable exit reason and
\* memory below the ceiling, was asked and answered true
C1_Witness ==
    /\ call.op = "is_unrecoverable_failure"
    /\ call.ret = TRUE
    /\ nodes[call.self].max_relaunch_count > 0
    /\ nodes[call.self].relaunch_count = nodes[call.self].max_relaunch_count
    /\ nodes[call.self].exit_reason # FATAL_ERROR
    /\ resources[nodes[call.self].used_resource].memory < MAX_MEMORY

\* C2: the successor s = n.get_relaunch_node_info(k) has id k, name None, status
\* INITIAL, start_time None, is_released false, relaunchable true, and the type,
\* task_index, critical, max_relaunch_count, config_resource values and
\* relaunch_count of n as it was when the call was made.
C2_SuccessorFields ==
    [][call'.op = "get_relaunch_node_info" =>
          LET n == nodes[call'.self]
              s == nodes'[call'.ret]
              k == call'.args[1]
          IN  /\ call'.ret \notin DOMAIN nodes
              /\ s.id = k
              /\ s.name = None
              /\ s.status = "INITIAL"
              /\ s.start_time = None
              /\ s.is_released = FALSE
              /\ s.relaunchable = TRUE
              /\ s.type = n.type
              /\ s.task_index = n.task_index
              /\ s.critical = n.critical
              /\ s.max_relaunch_count = n.max_relaunch_count
              /\ resources'[s.config_resource] = resources[n.config_resource]
              /\ s.relaunch_count = n.relaunch_count]_vars

\* a successor was derived, under another id, from a released node that was
\* not relaunchable
C2_Witness ==
    /\ call.op = "get_relaunch_node_info"
    /\ nodes[call.self].is_released
    /\ ~nodes[call.self].relaunchable
    /\ nodes[call.ret].id # nodes[call.self].id
    /\ ~nodes[call.ret].is_released

\* C8 as claimed: once a node has is_released == true, no operation on it
\* brings its status to RUNNING.
C8_ReleasedNeverRunning ==
    [][\A r \in DOMAIN nodes :
          (nodes[r].is_released /\ nodes[r].status # "RUNNING")
              => nodes'[r].status # "RUNNING"]_vars

\* C8 as amended: once a node has is_released == true, the only operation that
\* brings its status to RUNNING is update_status("RUNNING") on that node, which
\* overwrites the status whatever is_released is; update_status with None or
\* another status, update_info, update_resource_usage, inc_relaunch_count and
\* set_exit_reason never do.
C8_ReleasedRunningOnlyBySetter ==
    [][\A r \in DOMAIN nodes :
          (nodes[r].is_released /\ nodes[r].status # "RUNNING"
                                /\ nodes'[r].status = "RUNNING")
              => /\ call'.op = "update_status"
                 /\ call'.self = r
                 /\ call'.args = <<"RUNNING">>]_vars

\* a released node was handed update_status("RUNNING") and is RUNNING
C8_Witness ==
    /\ call.op = "update_status"
    /\ call.args = <<"RUNNING">>
    /\ nodes[call.self].is_released
    /\ nodes[call.self].status = "RUNNING"

\* C9: get_relaunch_node_info leaves every existing Node and NodeResource as it
\* was and returns a Node whose NodeResource objects are freshly allocated, held
\* by no other Node and not by the group; and a mutating call on one Node leaves
\* what every other Node shows (its fields, its config_resource, its
\* used_resource) as it was.
C9_SuccessorNotAliased ==
    [][/\ call'.op = "get_relaunch_node_info" =>
             LET s == nodes'[call'.ret]
             IN  /\ \A r \in DOMAIN nodes : View(r)' = View(r)
                 /\ \A x \in DOMAIN resources : resources'[x] = resources[x]
                 /\ s.config_resource \notin DOMAIN resources
                 /\ s.used_resource \notin DOMAIN resources
                 /\ \A r \in DOMAIN nodes :
                       {nodes'[r].config_resource, nodes'[r].used_resource}
                           \cap {s.config_resource, s.used_resource} = {}
                 /\ group'.node_resource \notin {s.config_resource, s.used_resource}
       /\ call'.op \in NodeMutators =>
             \A r \in DOMAIN nodes \ {call'.self} : View(r)' = View(r)]_vars

\* the successor (reference 2, in the slot of node 1) was given a resource usage
\* that its predecessor does not show
C9_Witness ==
    /\ call.op = "update_resource_usage"
    /\ call.self = 2
    /\ nodes[2].task_index = nodes[1].task_index
    /\ nodes[2].config_resource # nodes[1].config_resource
    /\ resources[nodes[2].used_resource] # resources[nodes[1].used_resource]

\* C10: NodeGroupResource.update(count, cpu, memory) leaves the config_resource
\* cpu and memory of every node built with the group's node_resource unchanged.
C10_TemplateNotAliased ==
    [][call'.op = "NodeGroupResource.update" =>
          \A r \in DOMAIN nodes :
             /\ resources'[nodes'[r].config_resource].cpu
                    = resources[nodes[r].config_resource].cpu
             /\ resources'[nodes'[r].config_resource].memory
                    = resources[nodes[r].config_resource].memory]_vars

\* ------------------------------------------ claims: reconciliation loop

\* the logical slots of the job
Slots == {<<role.type, 0>> : role \in Roles}

\* the Node objects ever created for a slot
NodesOf(slot) == {r \in DOMAIN nodes : Slot(nodes[r]) = slot}

\* the number of create requests for a slot among `req`
RelaunchesIn(req, slot) ==
    Cardinality({i \in DOMAIN req : <<req[i].role, req[i].taskIndex>> = slot})

\* the number of job-fatal signals for a slot among `sig`
FatalsIn(sig, slot) ==
    Cardinality({i \in DOMAIN sig :
                    /\ sig[i].event = "job-fatal"
                    /\ <<sig[i].role, sig[i].taskIndex>> = slot})

\* the create requests issued for a slot
RelaunchesOf(slot) == RelaunchesIn(requests, slot)

\* the job-fatal signals raised for a slot
FatalsOf(slot) == FatalsIn(signals, slot)

\* the nodes of a slot whose failure the loop has handled
FailedOf(slot) == {r \in NodesOf(slot) : nodes[r].status \in {"FAILED", "DELETED"}}

\* a failure the policy may retry: exit reason not fatal, memory below the ceiling
Retriable(r) ==
    /\ nodes[r].exit_reason # FATAL_ERROR
    /\ resources[nodes[r].used_resource].memory < MAX_MEMORY

\* this step is the loop handling the exit notification at the head of the queue
HandlesExit == queue # <<>> /\ Head(queue).kind = "exit" /\ queue' = Tail(queue)

\* C3: the relaunches of a slot never exceed max_relaunch_count, and a terminal
\* node has relaunch_count <= max_relaunch_count; when a non-critical slot has
\* failed max_relaunch_count + 1 times in a row, each time retriably (with
\* max_relaunch_count = 2: three times), it has been relaunched exactly
\* max_relaunch_count times, is then terminal (out of the roster, last node
\* DELETED) and no job-fatal signal was raised for it.
C3_RelaunchBudget ==
    \A slot \in Slots :
       /\ \A r \in NodesOf(slot) :
             /\ RelaunchesOf(slot) <= nodes[r].max_relaunch_count
             /\ nodes[r].status \in {"FAILED", "DELETED", "SUCCEEDED"}
                   => nodes[r].relaunch_count <= nodes[r].max_relaunch_count
             /\ ( /\ ~nodes[r].critical
                  /\ Cardinality(FailedOf(slot)) = nodes[r].max_relaunch_count + 1
                  /\ \A f \in FailedOf(slot) : Retriable(f) )
                   => /\ RelaunchesOf(slot) = nodes[r].max_relaunch_count
                      /\ slot \notin DOMAIN roster
                      /\ \E f \in FailedOf(slot) :
                            /\ nodes[f].status = "DELETED"
                            /\ nodes[f].relaunch_count = nodes[f].max_relaunch_count
                      /\ FatalsOf(slot) = 0

\* the worker slot with max_relaunch_count = 2 failed three times, each time
\* retriably: two relaunches, then terminal, no job-fatal signal
C3_Witness ==
    LET slot == <<"worker", 0>>
    IN  /\ Cardinality(FailedOf(slot)) = 3
        /\ \A f \in FailedOf(slot) :
              /\ nodes[f].max_relaunch_count = 2
              /\ nodes[f].exit_reason = "killed"
              /\ Retriable(f)
        /\ RelaunchesOf(slot) = 2
        /\ slot \notin DOMAIN roster
        /\ FatalsOf(slot) = 0

\* C4: when a critical node fails with its relaunch budget exhausted, the loop
\* raises one job-fatal signal for it and issues no create request, then or
\* afterwards: once a slot has a job-fatal signal, it gets no further signal of
\* that kind and no further create request.  A critical slot that has failed
\* max_relaunch_count + 1 times (with max_relaunch_count = 1: twice) was
\* relaunched max_relaunch_count times and has exactly one job-fatal signal.
C4_CriticalExhausted ==
    /\ [][HandlesExit =>
             LET n == Failed(Head(queue))
             IN  (n.critical /\ n.relaunch_count >= n.max_relaunch_count) =>
                    /\ signals' = Append(signals, Signal("job-fatal", n))
                    /\ FatalsIn(signals', Slot(n)) = 1
                    /\ requests' = requests
                    /\ DOMAIN nodes' = DOMAIN nodes
                    /\ roster' = roster]_vars
    /\ [][\A slot \in Slots :
             FatalsOf(slot) >= 1 =>
                /\ FatalsOf(slot)' = FatalsOf(slot)
                /\ RelaunchesOf(slot)' = RelaunchesOf(slot)]_vars
    /\ [](\A slot \in Slots : \A r \in NodesOf(slot) :
             ( /\ nodes[r].critical
               /\ Cardinality(FailedOf(slot)) = nodes[r].max_relaunch_count + 1 )
                => /\ RelaunchesOf(slot) = nodes[r].max_relaunch_count
                   /\ FatalsOf(slot) = 1)

\* the critical ps slot with max_relaunch_count = 1 failed twice, each time
\* retriably: one relaunch, then one job-fatal signal
C4_Witness ==
    LET slot == <<"ps", 0>>
    IN  /\ Cardinality(FailedOf(slot)) = 2
        /\ \A f \in FailedOf(slot) :
              /\ nodes[f].critical
              /\ nodes[f].max_relaunch_count = 1
              /\ Retriable(f)
        /\ RelaunchesOf(slot) = 1
        /\ FatalsOf(slot) = 1
        /\ signals[Len(signals)].event = "job-fatal"

\* C5: when a non-critical node fails with its relaunch budget exhausted, the
\* loop raises no job-fatal signal, creates no successor (no Node, no create
\* request), and removes the roster entry of the node's slot and no other,
\* leaving every other entry as it was.
C5_NonCriticalExhausted ==
    [][HandlesExit =>
          LET n == Failed(Head(queue))
          IN  (~n.critical /\ n.relaunch_count >= n.max_relaunch_count) =>
                 /\ \A slot \in Slots : FatalsOf(slot)' = FatalsOf(slot)
                 /\ Len(signals') = Len(signals) + 1
                 /\ signals'[Len(signals')].event # "job-fatal"
                 /\ DOMAIN nodes' = DOMAIN nodes
                 /\ requests' = requests
                 /\ Slot(n) \in DOMAIN roster
                 /\ DOMAIN roster' = DOMAIN roster \ {Slot(n)}
                 /\ \A slot \in DOMAIN roster' : roster'[slot] = roster[slot]]_vars

\* a worker that used up a budget of two relaunches was just taken out of the
\* roster, and the other slot is still there
C5_Witness ==
    /\ signals # <<>>
    /\ signals[Len(signals)].event = "node-terminal"
    /\ signals[Len(signals)].relaunchCount = 2
    /\ signals[Len(signals)].exitReason = "killed"
    /\ <<"worker", 0>> \notin DOMAIN roster
    /\ <<"ps", 0>> \in DOMAIN roster
    /\ RelaunchesOf(<<"worker", 0>>) = 2

ActiveStatus == {"INITIAL", "PENDING", "RUNNING"}

ActiveOf(slot) == {r \in NodesOf(slot) : nodes[r].status \in ActiveStatus}

\* C7: every slot has at most one active node, and it is the one the roster
\* maps the slot to; a relaunch puts the successor in the place of the failed
\* node in one step, so the failed node is no longer active when its successor
\* is, and no failed node has two successors (the nodes of a slot have pairwise
\* different relaunch counts and ids).
C7_OneActivePerSlot ==
    /\ [](\A slot \in Slots :
             /\ Cardinality(ActiveOf(slot)) <= 1
             /\ \A r \in ActiveOf(slot) : slot \in DOMAIN roster /\ roster[slot] = r
             /\ slot \in DOMAIN roster => roster[slot] \in NodesOf(slot)
             /\ \A r1, r2 \in NodesOf(slot) :
                   r1 # r2 => /\ nodes[r1].relaunch_count # nodes[r2].relaunch_count
                              /\ nodes[r1].id # nodes[r2].id)
    /\ [][/\ Cardinality(DOMAIN nodes' \ DOMAIN nodes) <= 1
          /\ \A s \in DOMAIN nodes' \ DOMAIN nodes :
                LET slot == Slot(nodes'[s])
                IN  /\ HandlesExit
                    /\ roster[slot] = Head(queue).node
                    /\ roster'[slot] = s
                    /\ nodes'[roster[slot]].status = "FAILED"
                    /\ nodes'[s].status = "INITIAL"
                    /\ nodes'[s].relaunch_count = nodes'[roster[slot]].relaunch_count + 1
                    /\ {r \in DOMAIN nodes' :
                          /\ Slot(nodes'[r]) = slot
                          /\ nodes'[r].status \in ActiveStatus} = {s}]_vars

\* a slot was relaunched: the failed node and its running successor are both in
\* the heap, and the roster holds the successor
C7_Witness ==
    \E slot \in DOMAIN roster :
       /\ Cardinality(NodesOf(slot)) = 2
       /\ nodes[roster[slot]].status = "RUNNING"
       /\ nodes[roster[slot]].relaunch_count = 1
       /\ \E f \in NodesOf(slot) : f # roster[slot] /\ nodes[f].status = "FAILED"

\* ------------------------------------------- claims: Node API, setters

\* C17: update_status(None) leaves the status and every other field of every
\* object as it was; update_status(s) with s not None sets the status to s
\* whatever the current status is (none is refused, not out of SUCCEEDED,
\* FAILED or DELETED either) and changes no other field.
C17_UpdateStatus ==
    [][call'.op = "update_status" =>
          LET r == call'.self
              s == call'.args[1]
          IN  /\ resources' = resources
              /\ group' = group
              /\ DOMAIN nodes' = DOMAIN nodes
              /\ \A x \in DOMAIN nodes \ {r} : nodes'[x] = nodes[x]
              /\ s = None => nodes'[r] = nodes[r]
              /\ s # None =>
                    /\ nodes'[r].status = s
                    /\ nodes'[r] = [nodes[r] EXCEPT !.status = s]]_vars

\* a node that had failed fatally was handed update_status("RUNNING") and is
\* RUNNING, its exit reason kept
C17_Witness ==
    /\ call.op = "update_status"
    /\ call.args = <<"RUNNING">>
    /\ nodes[call.self].status = "RUNNING"
    /\ nodes[call.self].exit_reason = FATAL_ERROR

\* C18: update_resource_usage(cpu, memory) sets the cpu and memory of the
\* node's used_resource to the arguments and leaves the rest of that
\* NodeResource, every field of every node (status, relaunch_count, ...), the
\* node's config_resource, every other NodeResource (so every other node's
\* used_resource) and the group as they were.
C18_UpdateResourceUsage ==
    [][call'.op = "update_resource_usage" =>
          LET n == nodes[call'.self]
              u == n.used_resource
          IN  /\ nodes' = nodes
              /\ group' = group
              /\ DOMAIN resources' = DOMAIN resources
              /\ resources'[u] = [resources[u] EXCEPT !.cpu = call'.args[1],
                                                      !.memory = call'.args[2]]
              /\ n.config_resource # u
              /\ \A x \in DOMAIN resources \ {u} : resources'[x] = resources[x]]_vars

\* the second of two nodes reported a usage at the ceiling; the first shows
\* none, and the configured resource of the second is the template's
C18_Witness ==
    /\ call.op = "update_resource_usage"
    /\ call.self = 2
    /\ resources[nodes[2].used_resource].memory = MAX_MEMORY
    /\ resources[nodes[1].used_resource].memory = 0
    /\ resources[nodes[2].config_resource].memory = 100

\* C19: relaunch_count never decreases: inc_relaunch_count raises it by exactly
\* one, update_status, update_info, update_resource_usage and set_exit_reason
\* leave it as it was, and the successor get_relaunch_node_info derives has a
\* relaunch_count no smaller than (equal to) its predecessor's at that time.
C19_RelaunchCountMonotonic ==
    [][/\ \A r \in DOMAIN nodes :
             /\ r \in DOMAIN nodes'
             /\ nodes'[r].relaunch_count >= nodes[r].relaunch_count
             /\ nodes'[r].relaunch_count # nodes[r].relaunch_count
                   => (call'.op = "inc_relaunch_count" /\ call'.self = r)
       /\ call'.op = "inc_relaunch_count" =>
             nodes'[call'.self].relaunch_count = nodes[call'.self].relaunch_count + 1
       /\ call'.op = "get_relaunch_node_info" =>
             /\ nodes'[call'.ret].relaunch_count >= nodes[call'.self].relaunch_count
             /\ nodes'[call'.ret].relaunch_count = nodes[call'.self].relaunch_count]_vars

\* a successor was derived from a node that had been relaunched once: both
\* count one relaunch
C19_Witness ==
    /\ call.op = "get_relaunch_node_info"
    /\ nodes[call.self].relaunch_count = 1
    /\ nodes[call.ret].relaunch_count = 1

\* C20: the successor get_relaunch_node_info derives has the verdict of
\* is_unrecoverable_failure() its predecessor has, since exit_reason, the used
\* memory, relaunch_count and max_relaunch_count are carried over; a successor
\* of a node with exit_reason FATAL_ERROR, or with used memory at the ceiling,
\* is unrecoverable from the start.
C20_VerdictCarriedOver ==
    [][call'.op = "get_relaunch_node_info" =>
          LET n == nodes[call'.self]
              s == nodes'[call'.ret]
          IN  /\ is_unrecoverable_failure(s, resources')
                    = is_unrecoverable_failure(n, resources)
              /\ s.exit_reason = n.exit_reason
              /\ resources'[s.used_resource].memory = resources[n.used_resource].memory
              /\ s.relaunch_count = n.relaunch_count
              /\ s.max_relaunch_count = n.max_relaunch_count
              /\ ( \/ n.exit_reason = FATAL_ERROR
                   \/ resources[n.used_resource].memory >= MAX_MEMORY )
                    => is_unrecoverable_failure(s, resources')]_vars

\* a successor of a node that failed fatally within its budget: INITIAL, and
\* unrecoverable
C20_Witness ==
    /\ call.op = "get_relaunch_node_info"
    /\ nodes[call.self].exit_reason = FATAL_ERROR
    /\ nodes[call.ret].status = "INITIAL"
    /\ nodes[call.ret].relaunch_count < nodes[call.ret].max_relaunch_count
    /\ resources[nodes[call.ret].used_resource].memory < MAX_MEMORY
    /\ is_unrecoverable_failure(nodes[call.ret], resources)

\* ------------------------------------------------------- text and numbers

(***************************************************************************)
(* A Python str is a sequence of symbols: one symbol per character, except *)
(* that a key word ("cpu", "memory", "nvidia.com/gpu", ...) is one symbol;  *)
(* no key word holds "," or "=", so splitting on them is character exact.  *)
(* A Python int is a natural number; where its size matters                *)
(* (convert_memory_to_mb) it is kept in binary, least significant bit      *)
(* first, without leading zeros.  A Python float that was read from a      *)
(* short decimal text is kept as that decimal: str() of it prints it back. *)
(***************************************************************************)

Digits == <<"0", "1", "2", "3", "4", "5", "6", "7", "8", "9">>

IsDigit(c) == \E i \in DOMAIN Digits : Digits[i] = c

DigitVal(c) == (CHOOSE i \in DOMAIN Digits : Digits[i] = c) - 1

\* the result of a call: a value, or the exception it raised
Ok(v) == [error |-> "", value |-> v]

Raise(e) == [error |-> e, value |-> <<>>]

\* text[-k:] and text[0:-k]
LastChars(text, k) ==
    IF Len(text) <= k THEN text ELSE SubSeq(text, Len(text) - k + 1, Len(text))

DropLast(text, k) ==
    IF Len(text) <= k THEN <<>> ELSE SubSeq(text, 1, Len(text) - k)

\* binary naturals: sum of a and b with carry c
RECURSIVE BitsAdd(_, _, _)
BitsAdd(a, b, c) ==
    IF a = <<>> /\ b = <<>>
    THEN IF c = 1 THEN <<1>> ELSE <<>>
    ELSE LET x == IF a = <<>> THEN 0 ELSE Head(a)
             y == IF b = <<>> THEN 0 ELSE Head(b)
             t == x + y + c
         IN  <<t % 2>> \o BitsAdd(IF a = <<>> THEN a ELSE Tail(a),
                                  IF b = <<>> THEN b ELSE Tail(b), t \div 2)

\* a * 2^k and a div 2^k
ShiftLeft(a, k) == IF a = <<>> THEN a ELSE [i \in 1 .. k |-> 0] \o a

ShiftRight(a, k) == IF Len(a) <= k THEN <<>> ELSE SubSeq(a, k + 1, Len(a))

RECURSIVE NatToBits(_)
NatToBits(n) == IF n = 0 THEN <<>> ELSE <<n % 2>> \o NatToBits(n \div 2)

RECURSIVE BitsToNat(_)
BitsToNat(a) == IF a = <<>> THEN 0 ELSE Head(a) + 2 * BitsToNat(Tail(a))

\* int(text) for a text of decimal digits, in binary
RECURSIVE DigitsToBits(_, _)
DigitsToBits(text, acc) ==
    IF text = <<>> THEN acc
    ELSE DigitsToBits(Tail(text),
                      BitsAdd(BitsAdd(ShiftLeft(acc, 1), ShiftLeft(acc, 3), 0),
                              NatToBits(DigitVal(Head(text))), 0))

\* int(text): a text that is not a run of decimal digits raises ValueError
PyInt(text) ==
    IF text # <<>> /\ \A i \in DOMAIN text : IsDigit(text[i])
    THEN Ok(DigitsToBits(text, <<>>))
    ELSE Raise("ValueError")

\* significant bits of a float
MantissaBits == 53

\* a binary natural with its d lowest bits dropped, rounded half to even
RoundBits(a, d) ==
    LET kept == ShiftRight(a, d)
        half == a[d]
        rest == \E i \in 1 .. d - 1 : a[i] = 1
        odd == kept # <<>> /\ Head(kept) = 1
    IN  IF half = 1 /\ (rest \/ odd) THEN BitsAdd(kept, <<1>>, 0) ELSE kept

\* value / 1024 for an int value: the float nearest to the quotient, as
\* mant * 2^exp
TrueDiv1024(a) ==
    IF Len(a) <= MantissaBits
    THEN [mant |-> a, exp |-> 0 - 10]
    ELSE [mant |-> RoundBits(a, Len(a) - MantissaBits),
          exp |-> Len(a) - MantissaBits - 10]

\* int(f) for a float f >= 0: the fraction is cut off
IntOfFloat(f) ==
    IF f.exp >= 0 THEN ShiftLeft(f.mant, f.exp) ELSE ShiftRight(f.mant, 0 - f.exp)

\* int(value / 1024)
KiToMb(a) == IntOfFloat(TrueDiv1024(a))

\* NodeResource.convert_memory_to_mb
convert_memory_to_mb(memory) ==
    LET unit == LastChars(memory, 2)
        value == PyInt(DropLast(memory, 2))
    IN  IF value.error # "" THEN value
        ELSE IF unit = <<"G", "i">> THEN Ok(ShiftLeft(value.value, 10))
        ELSE IF unit = <<"K", "i">> THEN Ok(KiToMb(value.value))
        ELSE value

\* --------------------------------------------------- floats and dicts

(***************************************************************************)
(* The cpu and memory of a NodeResource that is parsed or printed carry    *)
(* their Python type, because str() prints 5 as "5" and 5.0 as "5.0".  A   *)
(* number is its integer part and its fraction digits (no trailing zero):  *)
(* for a decimal of at most 15 significant digits that is not smaller than *)
(* 0.0001, float() and str() agree with the decimal text.                  *)
(***************************************************************************)

IntNum(n) == [float |-> FALSE, int |-> n, frac |-> <<>>]

FloatNum(n, frac) == [float |-> TRUE, int |-> n, frac |-> frac]

\* Python's == on numbers compares values: 2.0 == 2
NumEq(a, b) == a.int = b.int /\ a.frac = b.frac

RECURSIVE DigitsToNat(_, _)
DigitsToNat(text, acc) ==
    IF text = <<>> THEN acc
    ELSE DigitsToNat(Tail(text), 10 * acc + DigitVal(Head(text)))

RECURSIVE NatToDigits(_)
NatToDigits(n) ==
    IF n < 10 THEN <<Digits[n + 1]>>
    ELSE NatToDigits(n \div 10) \o <<Digits[(n % 10) + 1]>>

RECURSIVE StripZeros(_)
StripZeros(text) ==
    IF text # <<>> /\ text[Len(text)] = "0"
    THEN StripZeros(SubSeq(text, 1, Len(text) - 1))
    ELSE text

\* float(text): digits with at most one point and at least one digit
PyFloat(text) ==
    LET dots == {i \in DOMAIN text : text[i] = "."}
        dot == IF dots = {} THEN Len(text) + 1 ELSE CHOOSE i \in dots : TRUE
        whole == SubSeq(text, 1, dot - 1)
        part == SubSeq(text, dot + 1, Len(text))
    IN  IF /\ Cardinality(dots) <= 1
           /\ \A i \in DOMAIN text \ dots : IsDigit(text[i])
           /\ Len(whole) + Len(part) >= 1
        THEN Ok(FloatNum(DigitsToNat(whole, 0), StripZeros(part)))
        ELSE Raise("ValueError")

\* str(x) of a number
PyStr(x) ==
    IF x.float
    THEN NatToDigits(x.int) \o <<".">> \o (IF x.frac = <<>> THEN <<"0">> ELSE x.frac)
    ELSE NatToDigits(x.int)

\* text.strip()
RECURSIVE Strip(_)
Strip(text) ==
    IF text # <<>> /\ Head(text) = " " THEN Strip(Tail(text))
    ELSE IF text # <<>> /\ text[Len(text)] = " "
         THEN Strip(SubSeq(text, 1, Len(text) - 1))
         ELSE text

\* text.split(sep)
RECURSIVE Split(_, _)
Split(text, sep) ==
    LET at == {i \in DOMAIN text : text[i] = sep}
    IN  IF at = {} THEN <<text>>
        ELSE LET i == CHOOSE j \in at : \A k \in at : j <= k
             IN  <<SubSeq(text, 1, i - 1)>> \o Split(SubSeq(text, i + 1, Len(text)), sep)

\* a dict is the sequence of its entries in insertion order; d[key] = value
\* replaces the value of a key that is there and appends a new key
DictSet(d, key, value) ==
    IF \E i \in DOMAIN d : d[i].key = key
    THEN [i \in DOMAIN d |-> IF d[i].key = key
                              THEN [key |-> key, value |-> value] ELSE d[i]]
    ELSE Append(d, [key |-> key, value |-> value])

DictKeys(d) == {d[i].key : i \in DOMAIN d}

\* d.get(key, default)
DictGet(d, key, default) ==
    IF key \in DictKeys(d)
    THEN d[CHOOSE i \in DOMAIN d : d[i].key = key].value
    ELSE default

\* the argument None where a str is expected: a text whose one symbol is
\* no character
NoneText == <<None>>

\* key words that contain "nvidia.com"
NvidiaKeys == {"nvidia.com/gpu"}

\* the str in front of "=": a key word, or the empty str (no input holds a
\* key of several symbols)
KeyOf(text) == IF text = <<>> THEN "" ELSE Head(text)

\* to_resource_dict with cpu and memory taken for each other
to_resource_dict_swapped(self) ==
    LET resource == <<[key |-> "cpu", value |-> self.memory],
                      [key |-> "memory", value |-> PyStr(self.cpu) \o <<"M", "i">>]>>
    IN  IF self.gpu_num > 0
        THEN DictSet(resource, self.gpu_type, self.gpu_num)
        ELSE resource

\* to_resource_dict that emits the gpu entry for a count of zero as well
to_resource_dict_always(self) ==
    LET resource == <<[key |-> "cpu", value |-> self.cpu],
                      [key |-> "memory", value |-> PyStr(self.memory) \o <<"M", "i">>]>>
    IN  IF self.gpu_num >= 0
        THEN DictSet(resource, self.gpu_type, self.gpu_num)
        ELSE resource

\* NodeResource.to_resource_dict
to_resource_dict(self) ==
    LET resource == <<[key |-> "cpu", value |-> self.cpu],
                      [key |-> "memory", value |-> PyStr(self.memory) \o <<"M", "i">>]>>
    IN  IF self.gpu_num > 0
        THEN DictSet(resource, self.gpu_type, self.gpu_num)
        ELSE resource

\* the loop over resource_str.strip().split(","): one dict entry per item;
\* an item without "=" has no value.split("=")[1]
RECURSIVE ItemsToDict(_, _)
ItemsToDict(items, resource) ==
    IF items = <<>> THEN Ok(resource)
    ELSE LET kv == Split(Head(items), "=")
         IN  IF Len(kv) < 2 THEN Raise("IndexError")
             ELSE ItemsToDict(Tail(items),
                              DictSet(resource, KeyOf(kv[1]), kv[2]))

\* the loop over resource.items(): the last key that contains "nvidia.com"
\* gives gpu_type and gpu_num
RECURSIVE GpuOf(_, _)
GpuOf(entries, found) ==
    IF entries = <<>> \/ found.error # "" THEN found
    ELSE LET e == Head(entries)
             num == PyInt(e.value)
         IN  GpuOf(Tail(entries),
                   IF e.key \notin NvidiaKeys THEN found
                   ELSE IF num.error # "" THEN num
                   ELSE Ok([gpu_type |-> e.key, gpu_num |-> BitsToNat(num.value)]))

\* resource_str_to_node_resource with the given text for an absent memory
ParseResource(resource_str, absent_memory) ==
    IF resource_str = NoneText \/ resource_str = <<>>
    THEN Ok(NodeResource(IntNum(0), IntNum(0), None, 0))
    ELSE LET resource == ItemsToDict(Split(Strip(resource_str), ","), <<>>)
             memory == PyFloat(DropLast(DictGet(resource.value, "memory", absent_memory), 2))
             cpu == PyFloat(DictGet(resource.value, "cpu", <<"0">>))
             gpu == GpuOf(resource.value, Ok([gpu_type |-> None, gpu_num |-> 0]))
         IN  IF resource.error # "" THEN resource
             ELSE IF memory.error # "" THEN memory
             ELSE IF cpu.error # "" THEN cpu
             ELSE IF gpu.error # "" THEN gpu
             ELSE Ok(NodeResource(cpu.value, memory.value,
                                  gpu.value.gpu_type, gpu.value.gpu_num))

\* resource_str_to_node_resource with "0" for an absent memory
resource_str_to_node_resource_bare(resource_str) ==
    ParseResource(resource_str, <<"0">>)

\* NodeResource.resource_str_to_node_resource
resource_str_to_node_resource(resource_str) ==
    ParseResource(resource_str, <<"0", "M", "i">>)

\* ------------------------------------------------ parsing and conversion

\* longest run of decimal digits drawn as the number in front of a unit
MaxDigits == 4

\* digits the inputs are built from
InputDigits == {"0", "1", "2", "4", "5", "9"}

DigitTexts == UNION {[1 .. k -> InputDigits] : k \in 1 .. MaxDigits}

\* 2^53 - 1, 2^53 + 1022, 2^53 + 1023 and 2^53 + 2048 in decimal
LargeDigitTexts ==
    {<<"9","0","0","7","1","9","9","2","5","4","7","4","0","9","9","1">>,
     <<"9","0","0","7","1","9","9","2","5","4","7","4","2","0","1","4">>,
     <<"9","0","0","7","1","9","9","2","5","4","7","4","2","0","1","5">>,
     <<"9","0","0","7","1","9","9","2","5","4","7","4","3","0","4","0">>}

\* texts in front of the unit that int() refuses
NonIntegerTexts == {<<>>, <<"1", ".", "5">>, <<"M">>}

Units == {<<"K", "i">>, <<"M", "i">>, <<"G", "i">>}

\* two-character endings that are no unit
NonUnits == {<<"X", "i">>, <<"M", "B">>}

MemoryTexts ==
    {p \o u : p \in DigitTexts \cup LargeDigitTexts \cup NonIntegerTexts,
              u \in Units \cup NonUnits}
        \cup {<<>>, <<"5">>, <<"4", "2">>}

\* before the first call: no object, no node, an empty group
InitParse ==
    /\ nodes = <<>>
    /\ resources = <<>>
    /\ group = NodeGroupResource(0, None, None)
    /\ call = Call("init", None, <<>>, None)
    /\ ops = 0
    /\ roster = <<>>
    /\ queue = <<>>
    /\ signals = <<>>
    /\ requests = <<>>
    /\ exited = {}

\* NodeResource.convert_memory_to_mb(memory): a pure class method, whose
\* result does not depend on what was called before, so it is applied to
\* every input from the initial state
ConvertMemory ==
    /\ call.op = "init"
    /\ \E memory \in MemoryTexts :
          call' = Call("convert_memory_to_mb", None, <<memory>>,
                       convert_memory_to_mb(memory))
    /\ UNCHANGED <<nodes, resources, group, ops, loopVars>>

\* digits the memory of a resource string is built from
ParseDigits == {"0", "1", "2", "4"}

MemoryNumbers == UNION {[1 .. k -> ParseDigits] : k \in 1 .. MaxDigits}

CpuItems ==
    {<<"cpu", "=", "5">>, <<"cpu", "=", "0", ".", "5">>,
     <<"cpu", "=", "1", "2", ".", "2", "5">>}

MemoryItems == {<<"memory", "=">> \o n \o u : n \in MemoryNumbers, u \in Units}

GpuItems == {<<"nvidia.com/gpu", "=", "2">>, <<"nvidia.com/gpu", "=", "0">>}

\* ",".join(items), an absent item written <<>>
RECURSIVE Join(_)
Join(items) ==
    IF items = <<>> THEN <<>>
    ELSE LET rest == Join(Tail(items))
         IN  IF Head(items) = <<>> THEN rest
             ELSE IF rest = <<>> THEN Head(items)
             ELSE Head(items) \o <<",">> \o rest

\* key=value[,key=value]* with each key at most once, gpu last or first
ListedStrings ==
    {Join(<<c, m, g>>) : c \in CpuItems \cup {<<>>},
                         m \in MemoryItems \cup {<<>>},
                         g \in GpuItems \cup {<<>>}}
        \cup {Join(<<g, m, c>>) : c \in CpuItems, g \in GpuItems,
                                  m \in {<<"memory", "=", "1", "0", "0", "M", "i">>}}

\* None, blank and broken strings, a repeated key, an unknown key
OtherStrings ==
    {NoneText, <<" ">>, <<"cpu">>, <<"cpu", "=", "x">>,
     <<"memory", "=", "M", "i">>, <<"memory", "=", "1", ".", "5", "M", "i">>,
     <<"memory", "=", "5", "X", "i">>,
     <<" ", "memory", "=", "1", "0", "0", "M", "i", " ">>,
     <<"nvidia.com/gpu", "=", "x">>, <<"amd.com/gpu", "=", "2">>,
     <<"cpu", "=", "1", ",", "cpu", "=", "5">>}

ResourceStrings == ListedStrings \cup OtherStrings

\* the constructor called with numbers: NodeResource(cpu, memory, gpu_type,
\* gpu_num)
GpuArgs == {<<None, 0>>, <<"nvidia.com/gpu", 0>>, <<"nvidia.com/gpu", 2>>}

NewResource ==
    /\ call.op = "init"
    /\ \E cpu \in CpuValues, memory \in MemValues, gpu \in GpuArgs :
          /\ resources' = Store(resources, NewRef(resources),
                                NodeResource(IntNum(cpu), IntNum(memory),
                                             gpu[1], gpu[2]))
          /\ call' = Call("NodeResource", None, <<cpu, memory, gpu[1], gpu[2]>>,
                          Ok(NewRef(resources)))
    /\ UNCHANGED <<nodes, group, ops, loopVars>>

\* the call of resource_str_to_node_resource: the object it returns is new
ParseCall(resource_str) ==
    LET result == resource_str_to_node_resource(resource_str)
    IN  IF result.error # ""
        THEN /\ call' = Call("resource_str_to_node_resource", None,
                             <<resource_str>>, result)
             /\ UNCHANGED resources
        ELSE /\ resources' = Store(resources, NewRef(resources), result.value)
             /\ call' = Call("resource_str_to_node_resource", None,
                             <<resource_str>>, Ok(NewRef(resources)))

\* NodeResource.resource_str_to_node_resource(resource_str): a pure class
\* method, applied to every input from the initial state
Parse ==
    /\ call.op = "init"
    /\ \E resource_str \in ResourceStrings : ParseCall(resource_str)
    /\ UNCHANGED <<nodes, group, ops, loopVars>>

\* self.to_resource_dict() on the object just made
ToResourceDict ==
    /\ call.op \in {"resource_str_to_node_resource", "NodeResource"}
    /\ call.ret.error = ""
    /\ resources = <<resources[1]>>
    /\ call' = Call("to_resource_dict", call.ret.value, <<>>,
                    to_resource_dict(resources[call.ret.value]))
    /\ UNCHANGED <<nodes, resources, group, ops, loopVars>>

\* the str of a dict value: a number for cpu, a str for memory, an int for
\* a gpu count
ValueText(entry) ==
    IF entry.key = "cpu" THEN PyStr(entry.value)
    ELSE IF entry.key = "memory" THEN entry.value
    ELSE NatToDigits(entry.value)

\* the dict written as key=value[,key=value]*
WriteWire(d) == Join([i \in DOMAIN d |-> <<d[i].key, "=">> \o ValueText(d[i])])

\* the dict written back as a string and parsed again
Reparse ==
    /\ call.op = "to_resource_dict"
    /\ ParseCall(WriteWire(call.ret))
    /\ UNCHANGED <<nodes, group, ops, loopVars>>

NextParse ==
    \/ ConvertMemory
    \/ NewResource
    \/ Parse
    \/ ToResourceDict
    \/ Reparse

SpecParse == InitParse /\ [][NextParse]_vars

\* --------------------------------------------- claims: memory conversion

\* the text in front of the unit is an integer: a run of decimal digits
IsIntegerText(text) == text # <<>> /\ \A i \in DOMAIN text : IsDigit(text[i])

\* floor(n / 1024) of a binary natural
FloorDiv1024(a) == ShiftRight(a, 10)

\* C11: convert_memory_to_mb fails with a MalformedResourceError for every
\* input whose two-character suffix is not one of Ki, Mi, Gi or whose prefix
\* is not an integer, and never returns a number for such an input.
C11_MalformedRefused ==
    call.op = "convert_memory_to_mb" =>
        LET memory == call.args[1]
        IN  (LastChars(memory, 2) \notin Units
                 \/ ~IsIntegerText(DropLast(memory, 2)))
                => call.ret.error = "MalformedResourceError"

\* C12: for every non-negative integer n, convert_memory_to_mb gives n * 1024
\* for "<n>Gi", n for "<n>Mi" and floor(n / 1024) for "<n>Ki"; "2Gi" gives
\* 2048, "1024Ki" gives 1 and "5Mi" gives 5.
C12_ConversionExact ==
    call.op = "convert_memory_to_mb" =>
        LET memory == call.args[1]
            unit == LastChars(memory, 2)
            text == DropLast(memory, 2)
            n == DigitsToBits(text, <<>>)
        IN  /\ (IsIntegerText(text) /\ unit \in Units) =>
                  /\ call.ret.error = ""
                  /\ unit = <<"G", "i">> =>
                        call.ret.value = ShiftLeft(n, 10)
                  /\ unit = <<"M", "i">> => call.ret.value = n
                  /\ unit = <<"K", "i">> => call.ret.value = FloorDiv1024(n)
            /\ memory = <<"2", "G", "i">> => BitsToNat(call.ret.value) = 2048
            /\ memory = <<"1", "0", "2", "4", "K", "i">> =>
                  BitsToNat(call.ret.value) = 1
            /\ memory = <<"5", "M", "i">> => BitsToNat(call.ret.value) = 5

\* ----------------------------------------- claims: resource strings, dicts

\* the entries of a resource string
EntriesOf(resource_str) ==
    ItemsToDict(Split(Strip(resource_str), ","), <<>>).value

\* a well-formed resource string: key=value[,key=value]* with a decimal
\* cpu, an integer memory with a unit and an integer count for a gpu key
WellFormed(resource_str) ==
    /\ resource_str \notin {NoneText, <<>>}
    /\ LET items == Split(resource_str, ",")
       IN  \A i \in DOMAIN items :
              LET kv == Split(items[i], "=")
              IN  /\ Len(kv) = 2
                  /\ Len(kv[1]) = 1
                  /\ \/ /\ kv[1] = <<"cpu">>
                        /\ PyFloat(kv[2]).error = ""
                     \/ /\ kv[1] = <<"memory">>
                        /\ IsIntegerText(DropLast(kv[2], 2))
                        /\ LastChars(kv[2], 2) \in Units
                     \/ /\ kv[1][1] \in NvidiaKeys
                        /\ IsIntegerText(kv[2])

\* a first parse, of a string that was given, and a second parse, of the
\* dict written back
FirstParse ==
    /\ call.op = "resource_str_to_node_resource"
    /\ call.ret.error = "" => call.ret.value = 1
    /\ call.ret.error # "" => resources = <<>>

SecondParse == call.op = "resource_str_to_node_resource" /\ ~FirstParse

\* memory items put in front of a string that has none
SampleMemoryItems ==
    {<<"memory", "=", "1", "0", "2", "4">> \o u : u \in Units}

\* C13: resource_str_to_node_resource never fails on absent input: None or
\* the empty string gives cpu = 0, memory = 0, gpu_num = 0 and no gpu type;
\* a well-formed string without the cpu key gives cpu = 0, one without the
\* memory key gives memory = 0, and the keys that are present are parsed as
\* they are when no key is absent.
C13_AbsentIsZero ==
    FirstParse =>
        LET resource_str == call.args[1]
            r == resources[call.ret.value]
            keys == DictKeys(EntriesOf(resource_str))
        IN  /\ resource_str \in {NoneText, <<>>} =>
                  /\ call.ret.error = ""
                  /\ NumEq(r.cpu, IntNum(0))
                  /\ NumEq(r.memory, IntNum(0))
                  /\ r.gpu_num = 0
                  /\ r.gpu_type = None
            /\ (WellFormed(resource_str) /\ "cpu" \notin keys) =>
                  /\ call.ret.error = ""
                  /\ NumEq(r.cpu, IntNum(0))
                  /\ \A c \in CpuItems :
                        LET full == resource_str_to_node_resource(
                                        c \o <<",">> \o resource_str).value
                        IN  /\ full.memory = r.memory
                            /\ full.gpu_type = r.gpu_type
                            /\ full.gpu_num = r.gpu_num
            /\ (WellFormed(resource_str) /\ "memory" \notin keys) =>
                  /\ call.ret.error = ""
                  /\ NumEq(r.memory, IntNum(0))
                  /\ \A m \in SampleMemoryItems :
                        LET full == resource_str_to_node_resource(
                                        m \o <<",">> \o resource_str).value
                        IN  /\ full.cpu = r.cpu
                            /\ full.gpu_type = r.gpu_type
                            /\ full.gpu_num = r.gpu_num

C13_Witness ==
    /\ FirstParse
    /\ call.args = <<<<"cpu", "=", "0", ".", "5", ",", "nvidia.com/gpu", "=", "2">>>>
    /\ call.ret.error = ""
    /\ resources[1].memory = FloatNum(0, <<>>)
    /\ resources[1].cpu = FloatNum(0, <<"5">>)
    /\ resources[1].gpu_num = 2

\* C14: parsing a valid resource string, emitting the dict with
\* to_resource_dict, writing the dict back as a key=value string and parsing
\* that string yields the same cpu and the same memory as the first parse.
C14_RoundTrip ==
    SecondParse =>
        /\ call.ret.error = ""
        /\ call.ret.value = 2
        /\ NumEq(resources[2].cpu, resources[1].cpu)
        /\ NumEq(resources[2].memory, resources[1].memory)

C14_Witness ==
    /\ SecondParse
    /\ call.args = <<<<"cpu", "=", "0", ".", "5", ",",
                       "memory", "=", "1", "0", "2", "4", ".", "0", "M", "i", ",",
                       "nvidia.com/gpu", "=", "2">>>>
    /\ call.ret.error = ""
    /\ resources[1].cpu = FloatNum(0, <<"5">>)
    /\ resources[2].memory = FloatNum(1024, <<>>)

\* C15: to_resource_dict returns a dict with "cpu" bound to the cpu value
\* and "memory" bound to the memory value followed by "Mi"; it has one more
\* entry gpu_type -> gpu_num exactly when gpu_num > 0, and no other key.
C15_DictShape ==
    call.op = "to_resource_dict" =>
        LET self == resources[call.self]
            d == call.ret
        IN  /\ DictKeys(d) = {"cpu", "memory"}
                 \cup (IF self.gpu_num > 0 THEN {self.gpu_type} ELSE {})
            /\ Len(d) = Cardinality(DictKeys(d))
            /\ DictGet(d, "cpu", None) = self.cpu
            /\ DictGet(d, "memory", None) = PyStr(self.memory) \o <<"M", "i">>
            /\ self.gpu_num > 0 => DictGet(d, self.gpu_type, None) = self.gpu_num

C15_Witness ==
    /\ call.op = "to_resource_dict"
    /\ resources[call.self].gpu_num = 2
    /\ resources[call.self].memory = FloatNum(2, <<>>)
    /\ call.ret = <<[key |-> "cpu", value |-> FloatNum(5, <<>>)],
                    [key |-> "memory", value |-> <<"2", ".", "0", "M", "i">>],
                    [key |-> "nvidia.com/gpu", value |-> 2]>>

\* C16: resource_str_to_node_resource stores memory in MB: for every integer
\* n and unit u of Ki, Mi, Gi, parsing a string with "memory=<n><u>" yields a
\* memory equal to convert_memory_to_mb("<n><u>"); "memory=2Gi" yields 2048.
C16_MemoryInMb ==
    (FirstParse /\ WellFormed(call.args[1])
         /\ "memory" \in DictKeys(EntriesOf(call.args[1]))) =>
        LET text == DictGet(EntriesOf(call.args[1]), "memory", <<>>)
            mb == convert_memory_to_mb(text)
        IN  /\ call.ret.error = ""
            /\ mb.error = ""
            /\ NumEq(resources[call.ret.value].memory, IntNum(BitsToNat(mb.value)))

====
